---- MODULE Spec2Model ----
(***************************************************************************)
(* drip-table: the generic toolbar renderer (GenericRender) and the        *)
(* display-column part of the table state it mutates.                      *)
(*                                                                         *)
(* Source: packages/drip-table/src/components/generic-render/index.tsx     *)
(*                                                                         *)
(* JavaScript values are tagged records [type, val]; texts that the code   *)
(* trims are sequences of one-character strings.                           *)
(*                                                                         *)
(* Specifications:                                                         *)
(*   Spec            the display-column selector, renders, schema changes  *)
(*   SpecSearch      the search, slot and insert-button handlers           *)
(*   SpecToolbar     changes of the elements' visible flags                *)
(*   SpecHandlers    all handlers of one toolbar together                  *)
(*                                                                         *)
(* The store applies an updater to its latest state when setTableState is  *)
(* called; props.tableState is the snapshot of the last render and lags    *)
(* behind the store until Render.                                          *)
(***************************************************************************)
EXTENDS Integers, Sequences, FiniteSets, TLC

VARIABLES
  schemas,               \* props.schemas: the toolbar elements, in array order
  schema,                \* tableProps.schema: [id, columns]
  dataSource,            \* tableProps.dataSource (an opaque reference)
  slots,                 \* tableProps.slots: [given, own], see SlotRegistries
  callbacks,             \* the notification hooks the consumer supplied
  state,                 \* the table state held by the store (latest snapshot)
  tableState,            \* props.tableState: the snapshot the last render received
  displayColumnVisible,  \* React.useState(false), line 204
  searchStr,             \* React.useState(''), line 206
  searchKey,             \* React.useState(...), line 207
  view,                  \* output of the last render: one entry per <Col>
  calls,                 \* the callback invocations so far, in order
  hist,                  \* the last recorded handler runs (at most two), newest last
  steps                  \* the number of handler runs so far

vars == <<schemas, schema, dataSource, slots, callbacks, state, tableState,
          displayColumnVisible, searchStr, searchKey, view, calls, hist, steps>>

----------------------------------------------------------------------------
(* Bounds *)

\* Handler runs that are recorded (clicks, submits, schema changes) per behaviour.
MaxSteps == 3

----------------------------------------------------------------------------
(* JavaScript values *)

Undefined == [type |-> "undefined", val |-> ""]
Num(n) == [type |-> "number", val |-> n]
Str(s) == [type |-> "string", val |-> s]

\* JavaScript truthiness of undefined, numbers and strings, as used by
\* Array.prototype.find(s => s) on line 207. A number is written by its
\* String() text; the falsy numbers are 0, -0 and NaN.
Truthy(v) ==
  /\ v.type # "undefined"
  /\ ~(v.type = "number" /\ v.val \in {"0", "-0", "NaN"})
  /\ ~(v.type = "string" /\ v.val = "")

\* Array.prototype.includes
Includes(arr, x) == \E i \in 1..Len(arr) : arr[i] = x

SetOf(arr) == {arr[i] : i \in 1..Len(arr)}

NoDuplicates(arr) == \A i, j \in 1..Len(arr) : arr[i] = arr[j] => i = j

\* The characters String.prototype.trim removes (line 242): the WhiteSpace and
\* LineTerminator code points. A character that a TLA+ string cannot hold is
\* written by the name of its code point.
WhiteSpace ==
  { "\t", "", "\f", " ", " ", "U+FEFF", "U+1680",
    "U+2000", "U+2001", "U+2002", "U+2003", "U+2004", "U+2005", "U+2006",
    "U+2007", "U+2008", "U+2009", "U+200A", "U+202F", "U+205F", "U+3000" }

LineTerminator == { "\n", "\r", "U+2028", "U+2029" }

IsSpace(c) == c \in WhiteSpace \cup LineTerminator

\* String.prototype.trim on a text given as a sequence of characters.
RECURSIVE TrimStart(_)
TrimStart(s) ==
  IF s # <<>> /\ IsSpace(Head(s)) THEN TrimStart(Tail(s)) ELSE s

RECURSIVE TrimEnd(_)
TrimEnd(s) ==
  IF s # <<>> /\ IsSpace(s[Len(s)]) THEN TrimEnd(SubSeq(s, 1, Len(s) - 1)) ELSE s

Trim(s) == TrimEnd(TrimStart(s))

----------------------------------------------------------------------------
(* Inputs: toolbar elements, schemas, slot registries *)

\* A DripTableGenericRenderElement (lines 25-169). Every variant carries the
\* same fields here; a field a variant does not declare is Undefined / empty.
\*   visible: "true" | "false" | "undefined"
Element(type, visible, slot, hasSearchKeys, searchKeys, searchKeyDefaultValue, text) ==
  [type |-> type, visible |-> visible, slot |-> slot,
   hasSearchKeys |-> hasSearchKeys, searchKeys |-> searchKeys,
   searchKeyDefaultValue |-> searchKeyDefaultValue, text |-> text]

Spacer(visible) == Element("spacer", visible, "", FALSE, <<>>, Undefined, "")
Text(visible, t) == Element("text", visible, "", FALSE, <<>>, Undefined, t)
Html(visible, h) == Element("html", visible, "", FALSE, <<>>, Undefined, h)
Search(visible, keys, def) == Element("search", visible, "", TRUE, keys, def, "")
SearchNoKeys(visible, def) == Element("search", visible, "", FALSE, <<>>, def, "")
Slot(visible, id) == Element("slot", visible, id, FALSE, <<>>, Undefined, "")
InsertButton(visible) == Element("insert-button", visible, "", FALSE, <<>>, Undefined, "")
Selector(visible) == Element("display-column-selector", visible, "", FALSE, <<>>, Undefined, "")

\* searchKeys: [{label: "A", value: 1}, {label: "B", value: 2}]; only the
\* values matter to the code that is modelled.
KeysAB == <<Num("1"), Num("2")>>

\* The toolbars (props.schemas) the model draws from.
Toolbars ==
  { <<Selector("undefined")>>,
    <<Text("true", "title"), Selector("false"), Spacer("undefined"), Slot("true", "")>>,
    <<Search("undefined", KeysAB, Undefined)>>,
    <<Search("true", KeysAB, Undefined), Search("true", KeysAB, Num("2"))>>,
    <<SearchNoKeys("undefined", Num("0")), Slot("true", "header"),
      InsertButton("undefined"), Selector("true")>>,
    <<Slot("undefined", "footer"), Html("true", "<b>x</b>"), InsertButton("false"),
      Search("false", KeysAB, Str("")), Selector("undefined")>>,
    <<Search("true", KeysAB, Num("0")), Search("false", KeysAB, Num("NaN")),
      Search("false", KeysAB, Num("2")), Search("false", KeysAB, Num("1")),
      Slot("true", "constructor")>>,
    <<>> }

ColumnKeys == {"mock_1", "mock_2", "mock_3"}

Column(key, title, hidable) == [key |-> key, title |-> title, hidable |-> hidable]

Mock1(hidable) == Column("mock_1", "Name", hidable)
Mock2(hidable) == Column("mock_2", "Detail", hidable)
Mock3(hidable) == Column("mock_3", "Price", hidable)

\* The values e.key of a Menu click is drawn from; the click is enabled only
\* for the keys of the Menu.Items on screen.
MenuKeys == ColumnKeys \cup {"Name", "Detail", "Price"}

\* The column lists (tableProps.schema.columns) the model draws from; column
\* keys are unique within a schema.
ColumnLists ==
  { <<Mock1(TRUE), Mock2(FALSE)>>,
    <<Mock1(TRUE), Mock2(TRUE), Mock3(TRUE)>>,
    <<Mock1(FALSE), Mock2(FALSE)>>,
    <<Mock2(TRUE), Mock3(FALSE)>>,
    <<Mock3(TRUE), Mock1(TRUE)>> }

SchemaIds == {"t1", "t2"}

\* tableProps.slots: not given (undefined), or an object whose own properties
\* are the identifiers that have a slot function.
NoSlots == [given |-> FALSE, own |-> {}]
SlotsObject(own) == [given |-> TRUE, own |-> own]

\* The slot registries (tableProps.slots) the model draws from.
SlotRegistries ==
  { NoSlots, SlotsObject({}), SlotsObject({"header", ""}), SlotsObject({"default"}),
    SlotsObject({"header", "default"}) }

\* The properties every object inherits from Object.prototype; each holds a
\* truthy value (a function, or the prototype object itself).
ObjectPrototypeKeys ==
  { "constructor", "hasOwnProperty", "isPrototypeOf", "propertyIsEnumerable",
    "toLocaleString", "toString", "valueOf", "__proto__", "__defineGetter__",
    "__defineSetter__", "__lookupGetter__", "__lookupSetter__" }

CallbackNames == {"onSearch", "onInsertButtonClick", "onDisplayColumnKeysChange"}

\* Raw texts of the search input (e.target.value).
RawTexts ==
  { <<>>, <<"a", "b", "c">>, <<"\t", " ", "a", "b", "c">>, <<"a", "b", "c", " ", "\n">>,
    <<"a", " ", "c">>, <<" ", "U+3000">> }

ColumnKeysOf(columns) == [i \in 1..Len(columns) |-> columns[i].key]

\* All sub-lists of arr, in arr's order (the display sets a mount can start from).
RECURSIVE SubLists(_)
SubLists(arr) ==
  IF arr = <<>> THEN {<<>>}
  ELSE LET rest == SubLists(Tail(arr))
       IN rest \cup {<<Head(arr)>> \o r : r \in rest}

----------------------------------------------------------------------------
(* GenericRender: derived values *)

\* line 208: React.useMemo(() => ({ id: tableProps.schema.id, dataSource: tableProps.dataSource }))
tableInfo == [id |-> schema.id, dataSource |-> dataSource]

\* Mutant of InitialSearchKey: without a truthy default, the first option of
\* the first search element that has options is preselected.
InitialSearchKey_FirstOption(elements) ==
  LET mapped == [i \in 1..Len(elements) |->
                   IF elements[i].type = "search"
                   THEN elements[i].searchKeyDefaultValue ELSE Str("")]
      found == {i \in 1..Len(mapped) : Truthy(mapped[i])}
      withKeys == {i \in 1..Len(elements) :
                     elements[i].type = "search" /\ Len(elements[i].searchKeys) > 0}
  IN IF found # {} THEN mapped[CHOOSE i \in found : \A j \in found : i <= j]
     ELSE IF withKeys # {}
          THEN elements[CHOOSE i \in withKeys : \A j \in withKeys : i <= j].searchKeys[1]
          ELSE Undefined

\* Mutant of InitialSearchKey: the first search element that declares a
\* default at all gives the key, 0 and the empty string included.
InitialSearchKey_FirstDeclared(elements) ==
  LET declared == {i \in 1..Len(elements) :
                     /\ elements[i].type = "search"
                     /\ elements[i].searchKeyDefaultValue # Undefined}
  IN IF declared = {} THEN Undefined
     ELSE elements[CHOOSE i \in declared : \A j \in declared : i <= j].searchKeyDefaultValue

\* line 207: the initial value of the searchKey state,
\*   props.schemas.map(s => (s.type === 'search' ? s.searchKeyDefaultValue : '')).find(s => s)
InitialSearchKey(elements) ==
  LET mapped == [i \in 1..Len(elements) |->
                   IF elements[i].type = "search"
                   THEN elements[i].searchKeyDefaultValue ELSE Str("")]
      found == {i \in 1..Len(mapped) : Truthy(mapped[i])}
  IN IF found = {} THEN Undefined
     ELSE mapped[CHOOSE i \in found : \A j \in found : i <= j]

\* Mutant of hidableColumns: the filter is dropped, every column is offered.
hidableColumns_NoFilter(columns) == columns

\* line 282: tableProps.schema.columns.filter(c => c.hidable)
hidableColumns(columns) == SelectSeq(columns, LAMBDA c : c.hidable)

\* What the lookup of line 250 yields: the slot function found under the
\* property named `at`, or nothing (undefined). Every string, the empty one
\* included, can name a property.
NoSlotFunction == [found |-> FALSE, at |-> ""]
SlotFunction(id) == [found |-> TRUE, at |-> id]

\* Mutant of ResolveSlot: no fallback to the default slot function.
ResolveSlot_NoDefault(registry, id) ==
  IF registry.given /\ id \in registry.own \cup ObjectPrototypeKeys
  THEN SlotFunction(id) ELSE NoSlotFunction

\* line 250: tableProps.slots?.[config.slot] || tableProps.slots?.default
\* The result names the property whose value is taken as the slot function,
\* or is NoSlotFunction. The property read slots[id] also finds the
\* properties the object inherits from Object.prototype.
ResolveSlot(registry, id) ==
  IF registry.given /\ id \in registry.own \cup ObjectPrototypeKeys THEN SlotFunction(id)
  ELSE IF registry.given /\ "default" \in registry.own THEN SlotFunction("default")
  ELSE NoSlotFunction

----------------------------------------------------------------------------
(* GenericRender: what one render pass produces *)

\* "renders nothing": the null of lines 212, 284, 327, 350 and 358.
Null == [kind |-> "null"]

\* lines 223-247: the search element. The Select is rendered only when
\* config.searchKeys is given; both controls are controlled by the local state.
RenderSearch(config, key, str) ==
  [kind |-> "search",
   select |-> config.hasSearchKeys,
   options |-> config.searchKeys,
   selectDefaultValue |-> config.searchKeyDefaultValue,
   selectValue |-> key,
   inputValue |-> str]

\* lines 249-265: the slot element.
RenderSlot(config, registry) ==
  LET fn == ResolveSlot(registry, config.slot)
  IN IF fn.found
     THEN [kind |-> "Slot", fn |-> fn.at, slotType |-> config.slot]
     ELSE [kind |-> "error",
           text |-> <<"tableProps.slots['", config.slot, "'] does not exist">>]

\* Mutant of RenderSelector: the Menu.Items are keyed by column.title.
RenderSelector_KeyedByTitle(config, columns, ts, visible) ==
  LET hidable == hidableColumns(columns)
  IN IF Len(hidable) = 0 THEN Null
     ELSE [kind |-> "Dropdown",
           visible |-> visible,
           items |-> [i \in 1..Len(hidable) |-> hidable[i].title],
           titles |-> [i \in 1..Len(hidable) |-> hidable[i].title],
           checked |-> {hidable[i].key : i \in
                          {j \in 1..Len(hidable) :
                             Includes(ts.displayColumnKeys, hidable[j].key)}}]

\* lines 281-325: the display-column selector: nothing when no column is
\* hidable, else a Dropdown whose Menu has one item per hidable column, each
\* with a check mark that shows when tableState.displayColumnKeys includes it.
RenderSelector(config, columns, ts, visible) ==
  LET hidable == hidableColumns(columns)
  IN IF Len(hidable) = 0 THEN Null
     ELSE [kind |-> "Dropdown",
           visible |-> visible,
           items |-> ColumnKeysOf(hidable),
           titles |-> [i \in 1..Len(hidable) |-> hidable[i].title],
           checked |-> {hidable[i].key : i \in
                          {j \in 1..Len(hidable) :
                             Includes(ts.displayColumnKeys, hidable[j].key)}}]

\* lines 210-328: renderColumnContent. ctx is what the closure reads:
\*   [columns, slots, tableState, displayColumnVisible, searchKey, searchStr]
renderColumnContent(config, ctx) ==
  CASE config.type = "spacer" -> Null
    [] config.type = "text" -> [kind |-> "h3", text |-> config.text]
    [] config.type = "html" -> [kind |-> "RichText", html |-> config.text]
    [] config.type = "search" -> RenderSearch(config, ctx.searchKey, ctx.searchStr)
    [] config.type = "slot" -> RenderSlot(config, ctx.slots)
    [] config.type = "insert-button" -> [kind |-> "Button"]
    [] config.type = "display-column-selector" ->
         RenderSelector(config, ctx.columns, ctx.tableState, ctx.displayColumnVisible)
    [] OTHER -> Null

\* lines 335-352: one <Col> per element, keyed by its array index (from 0),
\* holding the element's content unless its visible is exactly false.
RenderCol(elements, index, ctx) ==
  [key |-> index - 1,
   content |-> IF elements[index].visible # "false"
               THEN renderColumnContent(elements[index], ctx)
               ELSE Null]

\* Mutant of GenericRender: the invisible elements are filtered out before
\* the map, so the elements after them are keyed by a lower index.
GenericRender_FiltersInvisible(elements, ctx) ==
  LET shown == SelectSeq(elements, LAMBDA e : e.visible # "false")
  IN IF Len(elements) > 0
     THEN [kind |-> "div",
           cols |-> [index \in 1..Len(shown) |-> RenderCol(shown, index, ctx)]]
     ELSE [kind |-> "null", cols |-> <<>>]

\* lines 330-358: the component's output.
GenericRender(elements, ctx) ==
  IF Len(elements) > 0
  THEN [kind |-> "div",
        cols |-> [index \in 1..Len(elements) |-> RenderCol(elements, index, ctx)]]
  ELSE [kind |-> "null", cols |-> <<>>]

RenderContext(cols, reg, ts, visible, key, str) ==
  [columns |-> cols, slots |-> reg, tableState |-> ts,
   displayColumnVisible |-> visible, searchKey |-> key, searchStr |-> str]

\* The contents of kind k that the last render put on screen.
Rendered(k) ==
  {view.cols[i].content : i \in {j \in 1..Len(view.cols) : view.cols[j].content.kind = k}}

----------------------------------------------------------------------------
(* The table state store *)

\* setTableState's merge of the partial state an updater returns into the
\* latest state: { ...state, ...partial }.
setTableState(st, partial) ==
  [f \in DOMAIN st |-> IF f \in DOMAIN partial THEN partial[f] ELSE st[f]]

\* Mutant of ToggleUpdater: the key is only ever added, never removed.
ToggleUpdater_NeverRemoves(st, key) ==
  LET displayColumnKeys ==
        IF ~Includes(st.displayColumnKeys, key)
        THEN Append(st.displayColumnKeys, key) ELSE st.displayColumnKeys
  IN [notify |-> displayColumnKeys,
      held |-> st.displayColumnKeys,
      return |-> [displayColumnKeys |-> displayColumnKeys]]

\* Mutant of ToggleUpdater: the key is pushed without the includes test of
\* line 291.
ToggleUpdater_PushesAlways(st, key) ==
  LET displayColumnKeys ==
        Append(SelectSeq(st.displayColumnKeys, LAMBDA k : k # key), key)
  IN [notify |-> displayColumnKeys,
      held |-> st.displayColumnKeys,
      return |-> [displayColumnKeys |-> displayColumnKeys]]

\* Mutant of ToggleUpdater: the new display set is computed from the
\* tableState of the handler's closure (the last render's props) instead of
\* the state the updater is given.
ToggleUpdater_ReadsRenderedState(st, key) ==
  LET filtered == SelectSeq(tableState.displayColumnKeys, LAMBDA k : k # key)
      displayColumnKeys ==
        IF ~Includes(tableState.displayColumnKeys, key)
        THEN Append(filtered, key) ELSE filtered
  IN [notify |-> displayColumnKeys,
      held |-> st.displayColumnKeys,
      return |-> [displayColumnKeys |-> displayColumnKeys]]

\* Mutant of ToggleUpdater: the updater returns a whole state built from the
\* defaults, with the new display set in it.
ToggleUpdater_ReturnsDefaults(st, key) ==
  LET filtered == SelectSeq(st.displayColumnKeys, LAMBDA k : k # key)
      displayColumnKeys ==
        IF ~Includes(st.displayColumnKeys, key) THEN Append(filtered, key) ELSE filtered
  IN [notify |-> displayColumnKeys,
      held |-> st.displayColumnKeys,
      return |-> [displayColumnKeys |-> displayColumnKeys, selectedRowKeys |-> <<>>]]

\* Mutant of ToggleUpdater: the callback is handed the display set of the
\* state the updater was given instead of the new one.
ToggleUpdater_NotifiesOld(st, key) ==
  LET filtered == SelectSeq(st.displayColumnKeys, LAMBDA k : k # key)
      displayColumnKeys ==
        IF ~Includes(st.displayColumnKeys, key) THEN Append(filtered, key) ELSE filtered
  IN [notify |-> st.displayColumnKeys,
      held |-> st.displayColumnKeys,
      return |-> [displayColumnKeys |-> displayColumnKeys]]

\* lines 289-296: the updater the Menu's onClick hands to setTableState.
\*   notify: the argument of onDisplayColumnKeysChange (line 294)
\*   held:   state.displayColumnKeys while that call runs: the updater has not
\*           returned yet, so the store still holds the state it was given
\*   return: the partial state (line 295)
ToggleUpdater(st, key) ==
  LET filtered == SelectSeq(st.displayColumnKeys, LAMBDA k : k # key)
      displayColumnKeys ==
        IF ~Includes(st.displayColumnKeys, key) THEN Append(filtered, key) ELSE filtered
  IN [notify |-> displayColumnKeys,
      held |-> st.displayColumnKeys,
      return |-> [displayColumnKeys |-> displayColumnKeys]]

\* The re-intersection of the display set with a new schema's columns.
ReIntersect(st, columns) ==
  [displayColumnKeys |->
     SelectSeq(st.displayColumnKeys, LAMBDA k : Includes(ColumnKeysOf(columns), k))]

\* One record per callback invocation.
Call(name, arg, info, held) == [name |-> name, arg |-> arg, info |-> info, held |-> held]

Invoke(name, arg, info, held) ==
  IF name \in callbacks THEN Append(calls, Call(name, arg, info, held)) ELSE calls

\* What a handler run is remembered by: the handler (op), the key or value it
\* was given, the index of the toolbar element it belongs to, and the state
\* it started from.
Event(op, key, at) ==
  [op |-> op, key |-> key, at |-> at,
   before |-> [displayColumnKeys |-> state.displayColumnKeys,
               state |-> state,
               displayColumnVisible |-> displayColumnVisible,
               searchKey |-> searchKey,
               searchStr |-> searchStr,
               tableState |-> tableState,
               view |-> view,
               calls |-> calls]]

\* The last two handler runs, newest last.
Remember(entry) == IF Len(hist) < 2 THEN Append(hist, entry) ELSE <<hist[2], entry>>

----------------------------------------------------------------------------
(* Initial states *)

\* The state after mount, given the props. The table state starts with a
\* display set drawn from the schema's column keys, in schema order.
MountWith(elements, sch, registry, hooks, display, selected) ==
  /\ schemas = elements
  /\ schema = sch
  /\ dataSource = "ds"
  /\ slots = registry
  /\ callbacks = hooks
  /\ state = [displayColumnKeys |-> display, selectedRowKeys |-> selected]
  /\ tableState = state
  /\ displayColumnVisible = FALSE
  /\ searchStr = <<>>
  /\ searchKey = InitialSearchKey(elements)
  /\ view = GenericRender(elements,
              RenderContext(sch.columns, registry, tableState,
                            displayColumnVisible, searchKey, searchStr))
  /\ calls = <<>>
  /\ hist = <<>>
  /\ steps = 0

\* A mount without selected rows.
Mount(elements, sch, registry, hooks, display) ==
  MountWith(elements, sch, registry, hooks, display, <<>>)

\* Tables whose toolbar, schema and initial display set vary.
Init ==
  \E elements \in Toolbars, columns \in ColumnLists, id \in SchemaIds,
     hooks \in {CallbackNames, {}} :
    \E display \in SubLists(ColumnKeysOf(columns)) :
      Mount(elements, [id |-> id, columns |-> columns], SlotsObject({"default"}), hooks, display)

\* Tables whose toolbar, slot registry and supplied callbacks vary.
InitSearch ==
  \E elements \in Toolbars, registry \in SlotRegistries, id \in SchemaIds,
     hooks \in SUBSET CallbackNames :
    Mount(elements,
          [id |-> id, columns |-> <<Mock1(TRUE), Mock2(FALSE)>>],
          registry, hooks, <<"mock_1", "mock_2">>)

\* The view after a handler has run: React renders the component again with
\* the (primed) props and local state.
Rerender ==
  view' = GenericRender(schemas',
            RenderContext(schema'.columns, slots', tableState',
                          displayColumnVisible', searchKey', searchStr'))

----------------------------------------------------------------------------
(* Handlers of the display-column selector *)

\* lines 288-297: Menu onClick with e.key = key, the key of a Menu.Item of the
\* open dropdown. setTableState applies the updater to the latest state; the
\* tableState prop changes only with the next render.
MenuClick(key) ==
  /\ steps < MaxSteps
  /\ \E d \in Rendered("Dropdown") : d.visible /\ Includes(d.items, key)
  /\ LET u == ToggleUpdater(state, key)
     IN /\ calls' = Invoke("onDisplayColumnKeysChange", u.notify, tableInfo, u.held)
        /\ state' = setTableState(state, u.return)
        /\ hist' = Remember(Event("toggle", key, 0))
  /\ steps' = steps + 1
  /\ UNCHANGED <<schemas, schema, dataSource, slots, callbacks, tableState,
                 displayColumnVisible, searchStr, searchKey>>
  /\ Rerender

\* line 317: Dropdown onVisibleChange(v).
VisibleChange(v) ==
  /\ Rendered("Dropdown") # {}
  /\ displayColumnVisible' = v
  /\ UNCHANGED <<schemas, schema, dataSource, slots, callbacks, state, tableState,
                 searchStr, searchKey, calls, hist, steps>>
  /\ Rerender

\* The owner renders GenericRender again with the store's latest state as
\* props.tableState (line 192).
Render ==
  /\ tableState # state
  /\ tableState' = state
  /\ UNCHANGED <<schemas, schema, dataSource, slots, callbacks, state,
                 displayColumnVisible, searchStr, searchKey, calls, hist, steps>>
  /\ Rerender

\* The owner passes a schema with other columns: the store re-intersects the
\* display set with them and the component is rendered with the result.
SchemaChange(columns) ==
  /\ steps < MaxSteps
  /\ columns # schema.columns
  /\ schema' = [schema EXCEPT !.columns = columns]
  /\ state' = setTableState(state, ReIntersect(state, columns))
  /\ tableState' = state'
  /\ hist' = Remember(Event("schema", "", 0))
  /\ steps' = steps + 1
  /\ UNCHANGED <<schemas, dataSource, slots, callbacks, displayColumnVisible,
                 searchStr, searchKey, calls>>
  /\ Rerender

Next ==
  \/ \E key \in MenuKeys : MenuClick(key)
  \/ \E v \in BOOLEAN : VisibleChange(v)
  \/ Render
  \/ \E columns \in ColumnLists : SchemaChange(columns)

Spec == Init /\ [][Next]_vars

----------------------------------------------------------------------------
(* Handlers of the search, slot and insert-button elements *)

\* Values a Select can report; only those among the element's searchKeys are
\* options on screen.
SearchKeyValues == {Num("1"), Num("2"), Num("3")}

\* What a slot component can pass to its onSearch prop.
SlotSearchParams ==
  { [searchKey |-> Str("name"), searchStr |-> <<"a", "b", "c">>],
    [searchKey |-> Undefined, searchStr |-> <<>>] }

\* The callback invocations a handler makes, appended to the log when the
\* consumer supplied the callback (the ?. of lines 243, 260, 274 and 294).
Invoked(invocations) ==
  calls \o SelectSeq([i \in 1..Len(invocations) |->
                        Call(invocations[i].name, invocations[i].arg, tableInfo,
                             state.displayColumnKeys)],
                     LAMBDA c : c.name \in callbacks)

\* Mutant of InputOnChange: the search callback fires on every keystroke.
InputOnChange_SearchesOnKeystroke(raw, key) ==
  [searchStr |-> Trim(raw),
   invoke |-> <<[name |-> "onSearch",
                 arg |-> [searchKey |-> key, searchStr |-> Trim(raw)]]>>]

\* line 242: Input.Search onChange: e => setSearchStr(e.target.value.trim()).
\* key is the searchKey of the closure, which the handler does not use.
InputOnChange(raw, key) == [searchStr |-> Trim(raw), invoke |-> <<>>]

\* line 231: Select onChange: value => setSearchKey(value)
SelectOnChange(value) == [searchKey |-> value, invoke |-> <<>>]

\* line 243: Input.Search onSearch:
\*   value => tableProps.onSearch?.({ searchKey, searchStr: value }, tableInfo)
InputOnSearch(value, key) ==
  [invoke |-> <<[name |-> "onSearch",
                 arg |-> [searchKey |-> key, searchStr |-> value]]>>]

\* line 260: the onSearch prop handed to a slot component.
SlotOnSearch(searchParams) == [invoke |-> <<[name |-> "onSearch", arg |-> searchParams]>>]

\* line 274: Button onClick: e => tableProps.onInsertButtonClick?.(e, tableInfo)
ButtonOnClick(e) == [invoke |-> <<[name |-> "onInsertButtonClick", arg |-> e]>>]

\* The element at index i is on screen with content of the given kind.
OnScreen(i, kind) ==
  /\ i \in 1..Len(view.cols)
  /\ view.cols[i].content.kind = kind

\* The user edits the text of the search element at index i.
ChangeSearchStr(i, raw) ==
  /\ steps < MaxSteps
  /\ OnScreen(i, "search")
  /\ LET r == InputOnChange(raw, searchKey)
     IN /\ searchStr' = r.searchStr
        /\ calls' = Invoked(r.invoke)
  /\ hist' = Remember(Event("change", raw, i))
  /\ steps' = steps + 1
  /\ UNCHANGED <<schemas, schema, dataSource, slots, callbacks, state, tableState,
                 displayColumnVisible, searchKey>>
  /\ Rerender

\* The user picks an option of the Select of the search element at index i.
SelectSearchKey(i, value) ==
  /\ steps < MaxSteps
  /\ OnScreen(i, "search")
  /\ view.cols[i].content.select
  /\ Includes(view.cols[i].content.options, value)
  /\ LET r == SelectOnChange(value)
     IN /\ searchKey' = r.searchKey
        /\ calls' = Invoked(r.invoke)
  /\ hist' = Remember(Event("select", value, i))
  /\ steps' = steps + 1
  /\ UNCHANGED <<schemas, schema, dataSource, slots, callbacks, state, tableState,
                 displayColumnVisible, searchStr>>
  /\ Rerender

\* The user submits the search element at index i (Enter or the search
\* button): the input hands its value, the controlled searchStr, to onSearch.
SubmitSearch(i) ==
  /\ steps < MaxSteps
  /\ OnScreen(i, "search")
  /\ calls' = Invoked(InputOnSearch(view.cols[i].content.inputValue, searchKey).invoke)
  /\ hist' = Remember(Event("submit", view.cols[i].content.inputValue, i))
  /\ steps' = steps + 1
  /\ UNCHANGED <<schemas, schema, dataSource, slots, callbacks, state, tableState,
                 displayColumnVisible, searchStr, searchKey>>
  /\ Rerender

\* The slot component at index i calls the onSearch prop it was given.
SlotSearch(i, searchParams) ==
  /\ steps < MaxSteps
  /\ OnScreen(i, "Slot")
  /\ calls' = Invoked(SlotOnSearch(searchParams).invoke)
  /\ hist' = Remember(Event("slotSearch", searchParams, i))
  /\ steps' = steps + 1
  /\ UNCHANGED <<schemas, schema, dataSource, slots, callbacks, state, tableState,
                 displayColumnVisible, searchStr, searchKey>>
  /\ Rerender

\* The user clicks the insert button at index i.
InsertClick(i) ==
  /\ steps < MaxSteps
  /\ OnScreen(i, "Button")
  /\ calls' = Invoked(ButtonOnClick("click").invoke)
  /\ hist' = Remember(Event("insert", "click", i))
  /\ steps' = steps + 1
  /\ UNCHANGED <<schemas, schema, dataSource, slots, callbacks, state, tableState,
                 displayColumnVisible, searchStr, searchKey>>
  /\ Rerender

ElementIndexes == 1..5

NextSearch ==
  \/ \E i \in ElementIndexes, raw \in RawTexts : ChangeSearchStr(i, raw)
  \/ \E i \in ElementIndexes, value \in SearchKeyValues : SelectSearchKey(i, value)
  \/ \E i \in ElementIndexes : SubmitSearch(i)
  \/ \E i \in ElementIndexes, searchParams \in SlotSearchParams : SlotSearch(i, searchParams)
  \/ \E i \in ElementIndexes : InsertClick(i)

SpecSearch == InitSearch /\ [][NextSearch]_vars

----------------------------------------------------------------------------
(* One toolbar with all its handlers *)

VisibleFlags == {"true", "false", "undefined"}

\* The owner passes the same elements with the visible flag of the element
\* at index i set to v (props.schemas, read on lines 335 and 350). The local
\* state of the component is kept: useState reads its initial value at mount.
SetVisible(i, v) ==
  /\ steps < MaxSteps
  /\ i \in 1..Len(schemas)
  /\ schemas[i].visible # v
  /\ schemas' = [schemas EXCEPT ![i].visible = v]
  /\ hist' = Remember(Event("setVisible", v, i))
  /\ steps' = steps + 1
  /\ UNCHANGED <<schema, dataSource, slots, callbacks, state, tableState,
                 displayColumnVisible, searchStr, searchKey, calls>>
  /\ Rerender

\* Tables whose toolbar and slot registry vary, mounted with a selected row
\* (props.selectedRowKeys).
InitToolbar ==
  \E elements \in Toolbars,
     registry \in {SlotsObject({}), SlotsObject({"header", "default"})} :
    MountWith(elements,
              [id |-> "t1", columns |-> <<Mock1(TRUE), Mock2(FALSE), Mock3(TRUE)>>],
              registry, CallbackNames, <<"mock_1", "mock_2">>, <<"row_1">>)

\* The elements' visible flags change while the local state changes.
NextToolbar ==
  \/ \E i \in ElementIndexes, v \in VisibleFlags : SetVisible(i, v)
  \/ \E i \in ElementIndexes, raw \in RawTexts : ChangeSearchStr(i, raw)
  \/ \E i \in ElementIndexes, value \in SearchKeyValues : SelectSearchKey(i, value)

SpecToolbar == InitToolbar /\ [][NextToolbar]_vars

\* Every handler of the toolbar's elements.
NextHandlers ==
  \/ \E key \in MenuKeys : MenuClick(key)
  \/ \E v \in BOOLEAN : VisibleChange(v)
  \/ Render
  \/ \E i \in ElementIndexes, raw \in RawTexts : ChangeSearchStr(i, raw)
  \/ \E i \in ElementIndexes, value \in SearchKeyValues : SelectSearchKey(i, value)
  \/ \E i \in ElementIndexes : SubmitSearch(i)
  \/ \E i \in ElementIndexes, searchParams \in SlotSearchParams : SlotSearch(i, searchParams)
  \/ \E i \in ElementIndexes : InsertClick(i)

SpecHandlers == InitToolbar /\ [][NextHandlers]_vars


----------------------------------------------------------------------------
(* Display-column properties *)

Last == hist[Len(hist)]

\* The last store transition was a selector toggle; state is its result.
LastIsToggle == Len(hist) >= 1 /\ Last.op = "toggle"

\* The last two store transitions were toggles of the same key.
ToggledTwice ==
  /\ Len(hist) = 2
  /\ hist[1].op = "toggle"
  /\ hist[2].op = "toggle"
  /\ hist[1].key = hist[2].key

DisplayCalls == SelectSeq(calls, LAMBDA c : c.name = "onDisplayColumnKeysChange")

\* C1 as stated: toggling a key twice in a row yields a display-column state
\* equal to the state before the two toggles.
C1_ToggleTwiceRestoresState ==
  ToggledTwice => state.displayColumnKeys = hist[1].before.displayColumnKeys

\* C1 as amended: toggling a key k twice in a row yields a display set with
\* the same keys as before the two toggles; the list itself is the same when
\* k was not displayed or was the last key, and otherwise k has moved to the end.
C1_ToggleTwiceRestoresSet ==
  ToggledTwice =>
    LET before == hist[1].before.displayColumnKeys
        after == state.displayColumnKeys
        k == hist[1].key
    IN /\ SetOf(after) = SetOf(before)
       /\ Len(after) = Len(before)
       /\ (~Includes(before, k) \/ before[Len(before)] = k) => after = before
       /\ (Includes(before, k) /\ before[Len(before)] # k) =>
            after = SelectSeq(before, LAMBDA x : x # k) \o <<k>>

\* A key that was displayed, and not last, has been toggled twice.
C1_Witness ==
  /\ ToggledTwice
  /\ Includes(hist[1].before.displayColumnKeys, hist[1].key)
  /\ state.displayColumnKeys # hist[1].before.displayColumnKeys

\* C2: every key in displayColumnKeys is the key of a column of the current
\* schema, after any sequence of toggles and schema changes.
C2_DisplayKeysAreSchemaKeys ==
  \A k \in SetOf(state.displayColumnKeys) :
    \E i \in 1..Len(schema.columns) : schema.columns[i].key = k

\* A toggle has added a key, after a schema change that removed a displayed key.
C2_Witness ==
  /\ Len(hist) = 2
  /\ hist[1].op = "schema"
  /\ ~(SetOf(hist[1].before.displayColumnKeys) \subseteq SetOf(ColumnKeysOf(schema.columns)))
  /\ hist[2].op = "toggle"
  /\ Includes(state.displayColumnKeys, hist[2].key)

\* C3: a toggle of key k changes k's membership and no other key's: the other
\* keys displayed before are displayed after, no other key is added, and the
\* display set, duplicate-free at mount, never holds a key twice.
C3_ToggleChangesOnlyItsKey ==
  /\ NoDuplicates(state.displayColumnKeys)
  /\ LastIsToggle =>
       LET before == Last.before.displayColumnKeys
           after == state.displayColumnKeys
       IN /\ Includes(after, Last.key) <=> ~Includes(before, Last.key)
          /\ \A x \in MenuKeys \ {Last.key} : Includes(after, x) <=> Includes(before, x)

\* A toggle has removed one of at least two displayed keys.
C3_Witness ==
  /\ LastIsToggle
  /\ Len(Last.before.displayColumnKeys) >= 2
  /\ Includes(Last.before.displayColumnKeys, Last.key)
  /\ Len(state.displayColumnKeys) = Len(Last.before.displayColumnKeys) - 1

\* C4: a toggle invokes onDisplayColumnKeysChange (when supplied) with the
\* whole display set the table state holds once the toggle is applied, and the
\* Table Information; with mock_1 (hidable) and mock_2 (not hidable) displayed,
\* toggling mock_1 invokes it with <<"mock_2">>.
C4_ToggleNotifiesNewDisplaySet ==
  (LastIsToggle /\ "onDisplayColumnKeysChange" \in callbacks) =>
    /\ DisplayCalls # <<>>
    /\ LET c == DisplayCalls[Len(DisplayCalls)]
       IN /\ c.arg = state.displayColumnKeys
          /\ c.info = [id |-> schema.id, dataSource |-> dataSource]
          /\ (/\ Last.before.displayColumnKeys = <<"mock_1", "mock_2">>
              /\ schema.columns = <<Mock1(TRUE), Mock2(FALSE)>>
              /\ Last.key = "mock_1") => c.arg = <<"mock_2">>

\* Scenario A has run with the callback supplied.
C4_Witness ==
  /\ LastIsToggle
  /\ "onDisplayColumnKeysChange" \in callbacks
  /\ schema.columns = <<Mock1(TRUE), Mock2(FALSE)>>
  /\ Last.before.displayColumnKeys = <<"mock_1", "mock_2">>
  /\ Last.key = "mock_1"
  /\ Len(calls) >= 1

\* C5: onDisplayColumnKeysChange is invoked after the table state already
\* holds the new displayColumnKeys, once per toggle that is applied.
C5_NotifiedAfterStateHoldsNewKeys ==
  /\ \A i \in 1..Len(DisplayCalls) : DisplayCalls[i].held = DisplayCalls[i].arg
  /\ (LastIsToggle /\ "onDisplayColumnKeysChange" \in callbacks) =>
       Len(calls) = Len(Last.before.calls) + 1

\* C6: the selector offers exactly the schema's hidable columns and renders
\* nothing when there is none; a toggle never changes whether a column that
\* is not hidable is displayed.
C6_SelectorOffersHidableColumnsOnly ==
  /\ \A i \in 1..Len(schemas) :
       (schemas[i].type = "display-column-selector" /\ schemas[i].visible # "false") =>
         LET hidable == {j \in 1..Len(schema.columns) : schema.columns[j].hidable}
             content == view.cols[i].content
         IN IF hidable = {} THEN content = Null
            ELSE /\ content.kind = "Dropdown"
                 /\ SetOf(content.items) = {schema.columns[j].key : j \in hidable}
                 /\ Len(content.items) = Cardinality(hidable)
  /\ LastIsToggle =>
       \A j \in 1..Len(schema.columns) :
         ~schema.columns[j].hidable =>
           (Includes(state.displayColumnKeys, schema.columns[j].key)
              <=> Includes(Last.before.displayColumnKeys, schema.columns[j].key))

\* A toggle has run on a table that displays a column that is not hidable.
C6_Witness ==
  /\ LastIsToggle
  /\ \E j \in 1..Len(schema.columns) :
       /\ ~schema.columns[j].hidable
       /\ Includes(state.displayColumnKeys, schema.columns[j].key)

----------------------------------------------------------------------------
(* Search and slot properties *)

SearchCalls(log) == SelectSeq(log, LAMBDA c : c.name = "onSearch")

\* Every handler run so far is in hist.
HistoryIsComplete == steps = Len(hist)

NeverSelected == \A n \in 1..Len(hist) : hist[n].op # "select"

Abc == <<"a", "b", "c">>

\* The last run was a submit of text "abc" on a search element that declares
\* searchKeys and no searchKeyDefaultValue, with no key ever selected and
\* the search callback supplied.
ScenarioB ==
  /\ Len(hist) >= 1
  /\ Last.op = "submit"
  /\ Last.key = Abc
  /\ schemas[Last.at].hasSearchKeys
  /\ schemas[Last.at].searchKeyDefaultValue = Undefined
  /\ HistoryIsComplete
  /\ NeverSelected
  /\ "onSearch" \in callbacks

\* C7: editing the search text or selecting a search key never invokes
\* onSearch; only a submit or a slot's bound callback does; a submit invokes it
\* once, with the selected search key, the submitted text and the Table
\* Information.
C7_SearchOnlyOnSubmit ==
  Len(hist) >= 1 =>
    /\ Last.op \in {"change", "select"} => calls = Last.before.calls
    /\ Last.op \notin {"submit", "slotSearch"} =>
         SearchCalls(calls) = SearchCalls(Last.before.calls)
    /\ (Last.op = "submit" /\ "onSearch" \in callbacks) =>
         /\ Len(calls) = Len(Last.before.calls) + 1
         /\ SubSeq(calls, 1, Len(calls) - 1) = Last.before.calls
         /\ calls[Len(calls)].name = "onSearch"
         /\ calls[Len(calls)].arg = [searchKey |-> Last.before.searchKey,
                                     searchStr |-> Last.before.searchStr]
         /\ calls[Len(calls)].info = [id |-> schema.id, dataSource |-> dataSource]
    /\ (Last.op = "submit" /\ "onSearch" \notin callbacks) => calls = Last.before.calls

\* A key was selected and then a text that is not empty was submitted.
C7_Witness ==
  /\ Len(hist) = 2
  /\ hist[1].op = "select"
  /\ hist[2].op = "submit"
  /\ hist[2].before.searchStr # <<>>
  /\ "onSearch" \in callbacks
  /\ Len(calls) = 1

\* C8 as stated: in scenario B onSearch is invoked with searchKey undefined
\* and searchStr "abc".
C8_SubmitWithoutKeySendsUndefined ==
  ScenarioB =>
    calls[Len(calls)].arg = [searchKey |-> Undefined, searchStr |-> Abc]

NoTruthyDefault ==
  \A i \in 1..Len(schemas) :
    schemas[i].type = "search" => ~Truthy(schemas[i].searchKeyDefaultValue)

\* C8 as amended: in scenario B, when no search element of the toolbar
\* declares a truthy searchKeyDefaultValue, onSearch is invoked with searchKey
\* undefined and searchStr "abc".
C8_SubmitWithoutKeyAndDefaultsSendsUndefined ==
  (ScenarioB /\ NoTruthyDefault) =>
    /\ calls # <<>>
    /\ calls[Len(calls)].name = "onSearch"
    /\ calls[Len(calls)].arg = [searchKey |-> Undefined, searchStr |-> Abc]

\* Scenario B has run on a toolbar without truthy defaults.
C8_Witness == ScenarioB /\ NoTruthyDefault /\ Len(calls) = 1

\* C9: a slot element with identifier s renders the slot function registered
\* under s if there is one, else the default slot function if there is one,
\* else an inline error whose text names s; it never renders nothing.
C9_SlotResolution ==
  \A i \in 1..Len(schemas) :
    (schemas[i].type = "slot" /\ schemas[i].visible # "false") =>
      LET s == schemas[i].slot
          content == view.cols[i].content
      IN /\ content # Null
         /\ s \in slots.own => (content.kind = "Slot" /\ content.fn = s)
         /\ (s \notin slots.own /\ "default" \in slots.own) =>
              (content.kind = "Slot" /\ content.fn = "default")
         /\ (s \notin slots.own /\ "default" \notin slots.own) =>
              (content.kind = "error" /\ Includes(content.text, s))

\* A slot element without a function of its own is on screen with the default one.
C9_Witness ==
  \E i \in 1..Len(schemas) :
    /\ schemas[i].type = "slot"
    /\ schemas[i].slot \notin slots.own
    /\ "default" \in slots.own
    /\ view.cols[i].content.kind = "Slot"
    /\ steps >= 1

\* C10: a display-column transition for a key that is not a column key of the
\* current schema leaves displayColumnKeys unchanged.
C10_UnknownKeyIsNoOp ==
  (LastIsToggle /\ ~Includes(ColumnKeysOf(schema.columns), Last.key)) =>
    state.displayColumnKeys = Last.before.displayColumnKeys

\* The case of C10 does not arise in the component: the Menu has one item per
\* hidable column of the schema it was rendered with, so every key a click
\* reports is a column key of the current schema.
C10_ToggledKeysAreSchemaKeys ==
  LastIsToggle => Includes(ColumnKeysOf(schema.columns), Last.key)

----------------------------------------------------------------------------
(* Toolbar properties *)

\* The kind of content an element of the given type renders to when it
\* renders to something.
KindOf(type) ==
  CASE type = "text" -> {"h3"}
    [] type = "html" -> {"RichText"}
    [] type = "search" -> {"search"}
    [] type = "slot" -> {"Slot", "error"}
    [] type = "insert-button" -> {"Button"}
    [] type = "display-column-selector" -> {"Dropdown", "null"}
    [] OTHER -> {"null"}

\* C11: the toolbar elements are emitted in array order, the element at array
\* index i under key i whatever the visibility of the others; an element with
\* visible false has no content; changing one element's visible flag changes
\* neither the order, the keys nor the content of any other element.
C11_ElementsKeepIndexKeys ==
  /\ Len(view.cols) = Len(schemas)
  /\ \A i \in 1..Len(schemas) :
       /\ view.cols[i].key = i - 1
       /\ schemas[i].visible = "false" => view.cols[i].content = Null
       /\ schemas[i].visible # "false" =>
            view.cols[i].content.kind \in KindOf(schemas[i].type)
       /\ (schemas[i].visible # "false" /\ schemas[i].type = "text") =>
            view.cols[i].content.text = schemas[i].text
       /\ (schemas[i].visible # "false" /\ schemas[i].type = "slot") =>
            (view.cols[i].content.kind = "Slot" =>
               view.cols[i].content.slotType = schemas[i].slot)
  /\ (Len(hist) >= 1 /\ Last.op = "setVisible") =>
       /\ Len(view.cols) = Len(Last.before.view.cols)
       /\ \A j \in 1..Len(view.cols) :
            j # Last.at => view.cols[j] = Last.before.view.cols[j]

\* An element in front of a visible one has just been hidden.
C11_Witness ==
  /\ Len(hist) >= 1
  /\ Last.op = "setVisible"
  /\ Last.key = "false"
  /\ Last.at < Len(schemas)
  /\ Last.before.view.cols[Last.at].content # Null
  /\ view.cols[Last.at].content = Null
  /\ \E j \in (Last.at + 1)..Len(schemas) : view.cols[j].content # Null

\* The last two handler runs were toggles of different keys and the component
\* has not been rendered with a newer table state than the one before the
\* first of them.
BackToBackToggles ==
  /\ Len(hist) = 2
  /\ hist[1].op = "toggle"
  /\ hist[2].op = "toggle"
  /\ hist[1].key # hist[2].key
  /\ tableState = hist[1].before.state

\* C12: two toggles of different keys issued back to back before any
\* re-render are both applied: the final displayColumnKeys reflects both, and
\* the second notification carries a display set with the effect of the first.
C12_BackToBackTogglesBothApply ==
  BackToBackToggles =>
    LET before == hist[1].before.displayColumnKeys
        between == hist[2].before.displayColumnKeys
        after == state.displayColumnKeys
        k1 == hist[1].key
        k2 == hist[2].key
    IN /\ Includes(after, k1) <=> ~Includes(before, k1)
       /\ Includes(after, k2) <=> ~Includes(before, k2)
       /\ \A x \in MenuKeys \ {k1, k2} : Includes(after, x) <=> Includes(before, x)
       /\ "onDisplayColumnKeysChange" \in callbacks =>
            /\ Len(DisplayCalls) >= 2
            /\ DisplayCalls[Len(DisplayCalls) - 1].arg = between
            /\ DisplayCalls[Len(DisplayCalls)].arg = after
            /\ Includes(DisplayCalls[Len(DisplayCalls)].arg, k1) <=> ~Includes(before, k1)

\* Two keys were toggled back to back and both notifications were made.
C12_Witness ==
  /\ BackToBackToggles
  /\ tableState # state
  /\ Len(calls) = 2

\* The search elements whose declared default is truthy.
TruthyDefaults ==
  {i \in 1..Len(schemas) :
     schemas[i].type = "search" /\ Truthy(schemas[i].searchKeyDefaultValue)}

\* C14: until a search key is selected, the search key shared by all search
\* elements is the searchKeyDefaultValue of the first search element in array
\* order whose default is truthy, and undefined when there is none (a default
\* of 0 or "" counts as none); every search element on screen shows that key.
C14_InitialSearchKeyIsFirstTruthyDefault ==
  (HistoryIsComplete /\ NeverSelected) =>
    /\ TruthyDefaults = {} => searchKey = Undefined
    /\ searchKey \notin {Num("0"), Num("NaN"), Str("")}
    /\ \A i \in TruthyDefaults :
         (\A j \in TruthyDefaults : i <= j) => searchKey = schemas[i].searchKeyDefaultValue
    /\ \A i \in 1..Len(view.cols) :
         view.cols[i].content.kind = "search" =>
           view.cols[i].content.selectValue = searchKey

\* A search was submitted from a search element that declares the default 0
\* and shows the default of a later element, the key sent with the search.
C14_Witness ==
  /\ HistoryIsComplete /\ NeverSelected
  /\ Len(calls) = 1
  /\ calls[1].name = "onSearch"
  /\ \E i \in 1..Len(schemas), j \in 1..Len(schemas) :
       /\ i < j
       /\ hist[Len(hist)].op = "submit"
       /\ hist[Len(hist)].at = i
       /\ schemas[i].type = "search"
       /\ schemas[i].searchKeyDefaultValue = Num("0")
       /\ schemas[j].type = "search"
       /\ Truthy(schemas[j].searchKeyDefaultValue)
       /\ view.cols[i].content.selectValue = schemas[j].searchKeyDefaultValue
       /\ calls[1].arg.searchKey = schemas[j].searchKeyDefaultValue

\* The handler run that a step records.
Ran(op) == steps' # steps /\ hist'[Len(hist')].op = op

\* C13: each toolbar action changes only its own piece of state. An insert
\* click, an edit of the search text, a selection of a search key and a
\* submit leave the table state unchanged; a display-column toggle writes
\* only displayColumnKeys and leaves the search text, the selected search key
\* and the dropdown's open flag as they are: the dropdown stays open.
C13_HandlersWriteOwnState ==
  [][ /\ (Ran("insert") \/ Ran("change") \/ Ran("select") \/ Ran("submit")
            \/ Ran("slotSearch")) =>
           /\ state' = state
           /\ tableState' = tableState
           /\ displayColumnVisible' = displayColumnVisible
      /\ (Ran("insert") \/ Ran("submit") \/ Ran("slotSearch")) =>
           /\ searchStr' = searchStr
           /\ searchKey' = searchKey
      /\ Ran("change") => searchKey' = searchKey
      /\ Ran("select") => searchStr' = searchStr
      /\ Ran("toggle") =>
           /\ \A f \in DOMAIN state \ {"displayColumnKeys"} : state'[f] = state[f]
           /\ DOMAIN state' = DOMAIN state
           /\ state'.displayColumnKeys # state.displayColumnKeys
           /\ searchStr' = searchStr
           /\ searchKey' = searchKey
           /\ displayColumnVisible
           /\ displayColumnVisible' ]_vars

\* A toggle has run after the search text was edited, on a table with a
\* selected row, and the dropdown is still open.
C13_Witness ==
  /\ Len(hist) = 2
  /\ hist[1].op = "change"
  /\ hist[2].op = "toggle"
  /\ searchStr # <<>>
  /\ state.selectedRowKeys # <<>>
  /\ state.displayColumnKeys # hist[2].before.displayColumnKeys
  /\ displayColumnVisible

====
